---- MODULE Spec2Model ----
(***************************************************************************)
(* Audio capture / transcription pipeline of the consultation front-end.   *)
(*                                                                         *)
(* Independent parts, each with its own next-state relation:               *)
(*   - RealtimeTranscriptionService (src/src/utils/realtimeTranscription)  *)
(*     : Next / Spec                                                       *)
(*   - RealtimeConsultation component on top of it : NextRC / SpecRC       *)
(*   - LiveTranscriptionService (src/src/utils/liveTranscription.ts)       *)
(*     : NextLive / SpecLive                                               *)
(*   - batch path: Consultation component and SimpleTranscriptionService   *)
(*     : NextBatch / SpecBatch                                             *)
(*   - MultilingualTranscriptionService : NextMl / SpecMl                  *)
(*   - WhisperTranscriptionService : NextWhisper / SpecWhisper             *)
(*   - the language heuristic as a function : NextHeuristic / SpecHeuristic*)
(* SpecScreens and SpecServices drive several of them, one at a time.      *)
(* JavaScript runs each handler to its next await atomically, so one       *)
(* action is one run of a handler between two awaits.                      *)
(***************************************************************************)
EXTENDS Integers, Sequences, FiniteSets, TLC

VARIABLES
  \* ---- RealtimeTranscriptionService (realtimeTranscription.ts:17-22)
  isInitialized,      \* this.isInitialized
  isRecording,        \* this.isRecording
  eventSource,        \* this.eventSource: "null", or the readyState of the object
  reconnectAttempts,  \* this.reconnectAttempts
  timers,             \* pending setTimeout callbacks scheduled by handleReconnect
  probes,             \* GET /health requests in flight (initialize)
  startCalls,         \* startTranscription calls awaiting POST /start
  stopCalls,          \* stopTranscription calls awaiting POST /stop
  \* ---- history of the realtime service (not program state)
  rtEvent,            \* outcome of the last handler run
  reopens,            \* timer-driven startEventStream calls since the last start
  clean,              \* since the last start: no timer of an earlier session, no onopen
  exhausted,          \* handleReconnect gave up since the last start / onopen
  terminalErrors,     \* terminal errors delivered to the caller since the last start
  strays,             \* 1 once the service let go of an EventSource unclosed
  openAtStop,         \* the last stopTranscription() call found the stream
                      \* open and no other handler has replaced it since
  \* ---- RealtimeConsultation component and the store (RealtimeConsultation.tsx)
  rcIsRecording,      \* useState isRecording (RealtimeConsultation.tsx:29)
  realtimeTranscripts,\* useState realtimeTranscripts (RealtimeConsultation.tsx:32)
  transcript,         \* store.transcript (useStore.ts:423), a sequence of characters
  serverLog,          \* the streaming server's log of results, in arrival order
  gets,               \* getTranscriptions calls awaiting GET /transcriptions
  rcEvent,            \* outcome of the last component handler run (history)
  \* ---- LiveTranscriptionService (liveTranscription.ts:32-41)
  liveInitialized,    \* this.isInitialized
  liveProbes,         \* initialize() calls awaiting the two GET /health
  audioChunks,        \* this.audioChunks
  isProcessing,       \* this.isProcessing
  sequenceCounter,    \* this.sequenceCounter
  results,            \* this.results
  minChunkSize,       \* this.config.minChunkSize
  job,                \* the processAudioChunks run that is awaiting a response
  \* ---- history of the live service (not program state)
  liveEvent,          \* outcome of the last handler run
  callbacks,          \* onResultCallback invocations, modulo 2
  liveErrors,         \* onErrorCallback invocations, modulo 2
  transcribePosts,    \* POST /transcribe requests of the live service in flight
  cleared,            \* clearResults() ran and no chunk was accepted since
  \* ---- batch path: Consultation.tsx, the store, SimpleTranscriptionService
  storeIsRecording,   \* store.isRecording (useStore.ts:422)
  mediaRecorder,      \* store.mediaRecorder: 0 for null, or an index of recorders
  storeAudioChunks,   \* store.audioChunks (useStore.ts:426)
  recorders,          \* every MediaRecorder created: its state, its mimeType,
                      \* the length of its `chunks` array (Consultation.tsx:113-116)
  supportedTypes,     \* what MediaRecorder.isTypeSupported accepts in this
                      \* browser; UnknownSupport until the first negotiation
  streamRef,          \* streamRef.current: "null", or "live" / "stopped" tracks
  orphanStreams,      \* live MediaStreams streamRef no longer refers to
                      \* (counted up to MaxRecorders)
  micPending,         \* startRecording calls awaiting getUserMedia
  stopWaits,          \* stopRecording calls in their one second wait
  posts,              \* blobs in flight to POST /transcribe (simple service)
  simpleInitialized,  \* SimpleTranscriptionService.isInitialized
  simpleProbes,       \* its GET /health requests in flight
  bEvent,             \* outcome of the last batch handler run (history)
  \* ---- MultilingualTranscriptionService (multilingualTranscription.ts:30-36)
  mlInitialized,      \* this.isInitialized
  mlProbes,           \* checkServices() runs in flight
  streamingResults,   \* this.streamingResults
  onStreamingResultCallback, \* TRUE when the callback is set
  mlJobs,             \* processLiveAudioChunk / processAudioStream calls in
                      \* flight; `superseded` (history): stopLiveTranscription()
                      \* was called since the call was made
  mlEvent,            \* outcome of the last step of the service (history)
  mlReturned,         \* what the last settled call handed its caller (history)
  \* ---- WhisperTranscriptionService (whisperTranscription.ts:18-20)
  whisperInitialized, \* this.isInitialized
  whisperProbes,      \* its GET /health requests in flight
  whisperPosts,       \* transcribeAudio calls awaiting POST /transcribe
  whisperChecks,      \* isServiceAvailable calls awaiting GET /health
  \* ---- history of the Whisper service (not program state)
  wEvent,             \* outcome of the last handler run
  whisperNewest,      \* the most recently started probe: "pending", or its outcome
  whisperLast,        \* outcome of the probe that completed last, "none" before
  \* ---- the language heuristic called on its own
  hText,              \* the text handed to the heuristic
  hLive,              \* what isEnglishText returned for it, "pending" before
  hPipeline           \* what isEnglish returned for it, "pending" before

rtVars == <<isInitialized, isRecording, eventSource, reconnectAttempts, timers,
            probes, startCalls, stopCalls>>
rtHist == <<rtEvent, reopens, clean, exhausted, terminalErrors, strays,
           openAtStop>>

rcVars == <<rcIsRecording, realtimeTranscripts, transcript, serverLog, gets, rcEvent>>

liveVars == <<liveInitialized, liveProbes, audioChunks, isProcessing,
              sequenceCounter, results, minChunkSize, job>>
liveHist == <<liveEvent, callbacks, liveErrors, transcribePosts, cleared>>

batchVars == <<storeIsRecording, mediaRecorder, storeAudioChunks, recorders,
               supportedTypes, streamRef, orphanStreams, micPending, stopWaits, posts,
               simpleInitialized, simpleProbes>>

mlVars == <<mlInitialized, mlProbes, streamingResults,
            onStreamingResultCallback, mlJobs>>
mlHist == <<mlEvent, mlReturned>>

whisperVars == <<whisperInitialized, whisperProbes, whisperPosts, whisperChecks>>
whisperHist == <<wEvent, whisperNewest, whisperLast>>

heuristicVars == <<hText, hLive, hPipeline>>

vars == <<rtVars, rtHist, rcVars, liveVars, liveHist, batchVars, bEvent,
          mlVars, mlHist, whisperVars, whisperHist, heuristicVars>>

\* what the realtime service's own steps leave alone
nonRT == <<rcVars, liveVars, liveHist, batchVars, bEvent, mlVars, mlHist,
           whisperVars, whisperHist, heuristicVars>>
\* what the RealtimeConsultation steps leave alone
nonRC == <<liveVars, liveHist, batchVars, bEvent, mlVars, mlHist,
           whisperVars, whisperHist, heuristicVars>>
\* what the live service's steps leave alone
nonLive == <<rtVars, rtHist, rcVars, batchVars, bEvent, mlVars, mlHist,
             whisperVars, whisperHist, heuristicVars>>
\* what the batch path's steps leave alone (they set store.transcript)
nonBatch == <<rtVars, rtHist, liveVars, liveHist, mlVars, mlHist,
              rcIsRecording, realtimeTranscripts, serverLog, gets, rcEvent,
              whisperVars, whisperHist, heuristicVars>>
\* what the multilingual service's steps leave alone
nonMl == <<rtVars, rtHist, rcVars, liveVars, liveHist, batchVars, bEvent,
           whisperVars, whisperHist, heuristicVars>>
\* what the Whisper service's steps leave alone
nonWhisper == <<rtVars, rtHist, rcVars, liveVars, liveHist, batchVars, bEvent,
                mlVars, mlHist, heuristicVars>>
\* what a call of the language heuristic leaves alone
nonHeuristic == <<rtVars, rtHist, rcVars, liveVars, liveHist, batchVars,
                  bEvent, mlVars, mlHist, whisperVars, whisperHist>>

\* ------------------------------------------------------------------ bounds
\* config.maxReconnectAttempts (realtimeTranscription.ts:28, default 5):
\* the configured value used by the model
maxReconnectAttempts == 2
\* requests of one kind in flight at once
MaxCalls == 2
\* health probes in flight at once
MaxProbes == 1
\* results the streaming server produces (sequences 0 .. MaxSeg-1)
MaxSeg == 3
\* chunks the live service accepts before clearResults() (sequenceCounter cap)
MaxSequence == 2
\* results the live service logs before the model stops feeding it
MaxResults == 1
\* MediaRecorders created in one run of the batch screen
MaxRecorders == 1
\* startRecording calls awaiting the microphone at once
MaxMic == 1
\* batch POST /transcribe requests in flight at once
MaxPosts == 1
\* calls of the multilingual service in flight at once
MaxMlJobs == 1
\* health probes of the Whisper service in flight at once
MaxOverlap == 2
\* transcribeAudio calls of the Whisper service in flight at once
MaxWhisperPosts == 1
\* English words in a text handed to the language heuristic
MaxEnglish == 3
\* other words in such a text
MaxOther == 9
\* blanks before its first and after its last word
MaxPad == 1
\* chunks one MediaRecorder delivers
MaxChunks == 2
\* bytes of every chunk a MediaRecorder delivers
ChunkBytes == 40

\* pending reconnect timers the model lets accumulate
MaxTimers == maxReconnectAttempts + 1
\* the history counter reopens saturates here
MaxReopens == maxReconnectAttempts + 1

\* a sequence without the element at position i
Without(seq, i) == SubSeq(seq, 1, i - 1) \o SubSeq(seq, i + 1, Len(seq))

Min(a, b) == IF a <= b THEN a ELSE b

\* ------------------------------------------- RealtimeTranscriptionService

\* An EventSource that holds or is trying to hold a connection.
StreamOpen == eventSource \in {"connecting", "open"}

\* realtimeTranscription.ts:224-229: close the current object, create a new one
startEventStream(es) == "connecting"

\* realtimeTranscription.ts:256-261: close and forget the current object
stopEventStream(es) == "null"

\* a seeded fault for Released: the object is dropped without close()
ReleasedUnclosed(es) == es

\* realtimeTranscription.ts:225-227 and 257-259: the state in which the
\* current object is left when the service replaces or forgets it
Released(es) == IF es = "null" THEN "null" ELSE "closed"

\* strays once the service has let go of `es`
StraysAfter(es) ==
  IF Released(es) \in {"connecting", "open"} THEN 1 ELSE strays

\* a seeded fault for ReconnectExhausted: off by one
ReconnectExhaustedOffByOne(attempts) == attempts > maxReconnectAttempts

\* realtimeTranscription.ts:267
ReconnectExhausted(attempts) == attempts >= maxReconnectAttempts

\* realtimeTranscription.ts:266-281, run with `es` the state the failing
\* EventSource is left in
handleReconnect(es) ==
  IF ReconnectExhausted(reconnectAttempts)
  THEN /\ eventSource' = stopEventStream(es)
       /\ strays' = StraysAfter(es)
       /\ exhausted' = TRUE
       /\ rtEvent' = "exhausted"
       /\ UNCHANGED <<reconnectAttempts, timers>>
  ELSE /\ reconnectAttempts' = reconnectAttempts + 1
       /\ timers' = timers + 1
       /\ eventSource' = es
       /\ rtEvent' = "scheduled"
       /\ UNCHANGED <<exhausted, strays>>

\* realtimeTranscription.ts:34-44, 46-53: the health probe answers 200
ProbeOk ==
  /\ probes > 0
  /\ probes' = probes - 1
  /\ isInitialized' = TRUE
  /\ rtEvent' = "probeOk"
  /\ UNCHANGED <<isRecording, eventSource, reconnectAttempts, timers, startCalls,
                 stopCalls, reopens, clean, exhausted, terminalErrors,
                 strays, openAtStop>>

\* realtimeTranscription.ts:40-43: the probe fails or answers non-OK
ProbeFail ==
  /\ probes > 0
  /\ probes' = probes - 1
  /\ isInitialized' = FALSE
  /\ rtEvent' = "probeFail"
  /\ UNCHANGED <<isRecording, eventSource, reconnectAttempts, timers, startCalls,
                 stopCalls, reopens, clean, exhausted, terminalErrors,
                 strays, openAtStop>>

\* realtimeTranscription.ts:297-301
Reinitialize ==
  /\ probes < MaxProbes
  /\ isInitialized' = FALSE
  /\ probes' = probes + 1
  /\ rtEvent' = "reinitialize"
  /\ UNCHANGED <<isRecording, eventSource, reconnectAttempts, timers, startCalls,
                 stopCalls, reopens, clean, exhausted, terminalErrors,
                 strays, openAtStop>>

\* realtimeTranscription.ts:63-66: the call goes on to POST /start
StartGuardPasses == ~isRecording

\* realtimeTranscription.ts:58-75: startTranscription() up to its first await
StartTranscription ==
  /\ UNCHANGED <<isInitialized, isRecording, eventSource, reconnectAttempts,
                 timers, probes, stopCalls, reopens, clean, exhausted,
                 terminalErrors,
                 strays, openAtStop>>
  /\ IF ~isInitialized
     THEN rtEvent' = "startThrew" /\ UNCHANGED startCalls
     ELSE IF ~StartGuardPasses
     THEN rtEvent' = "startNoop" /\ UNCHANGED startCalls
     ELSE /\ startCalls < MaxCalls
          /\ startCalls' = startCalls + 1
          /\ rtEvent' = "startSent"

\* realtimeTranscription.ts:82-88: POST /start answered OK
StartOk ==
  /\ startCalls > 0
  /\ startCalls' = startCalls - 1
  /\ eventSource' = startEventStream(eventSource)
  /\ strays' = StraysAfter(eventSource)
  /\ openAtStop' = FALSE
  /\ isRecording' = TRUE
  /\ reconnectAttempts' = 0
  /\ rtEvent' = "startResolved"
  /\ reopens' = 0
  /\ clean' = (timers = 0)
  /\ exhausted' = FALSE
  /\ terminalErrors' = 0
  /\ UNCHANGED <<isInitialized, timers, probes, stopCalls>>

\* realtimeTranscription.ts:77-80, 90-94: POST /start failed or answered non-OK
StartFail ==
  /\ startCalls > 0
  /\ startCalls' = startCalls - 1
  /\ rtEvent' = "startRejected"
  /\ UNCHANGED <<isInitialized, isRecording, eventSource, reconnectAttempts,
                 timers, probes, stopCalls, reopens, clean, exhausted,
                 terminalErrors,
                 strays, openAtStop>>

\* a seeded fault for StopGuardPasses: the isRecording check dropped
StopGuardPassesAlways == TRUE

\* realtimeTranscription.ts:101-104: the call goes on to POST /stop
StopGuardPasses == isRecording

\* realtimeTranscription.ts:100-116: stopTranscription() up to its await
StopTranscription ==
  /\ UNCHANGED <<isInitialized, isRecording, reconnectAttempts, timers, probes,
                 startCalls, reopens, clean, exhausted, terminalErrors>>
  /\ IF ~StopGuardPasses
     THEN rtEvent' = "stopNoop"
          /\ UNCHANGED <<eventSource, stopCalls, strays, openAtStop>>
     ELSE /\ stopCalls < MaxCalls
          /\ openAtStop' = StreamOpen
          /\ eventSource' = stopEventStream(eventSource)
          /\ strays' = StraysAfter(eventSource)
          /\ stopCalls' = stopCalls + 1
          /\ rtEvent' = "stopSent"

\* realtimeTranscription.ts:123-125: POST /stop answered OK
StopOk ==
  /\ stopCalls > 0
  /\ stopCalls' = stopCalls - 1
  /\ isRecording' = FALSE
  /\ rtEvent' = "stopResolved"
  /\ UNCHANGED <<isInitialized, eventSource, reconnectAttempts, timers, probes,
                 startCalls, reopens, clean, exhausted, terminalErrors,
                 strays, openAtStop>>

\* realtimeTranscription.ts:118-121, 127-131: POST /stop failed or answered non-OK
StopFail ==
  /\ stopCalls > 0
  /\ stopCalls' = stopCalls - 1
  /\ rtEvent' = "stopRejected"
  /\ UNCHANGED <<isInitialized, isRecording, eventSource, reconnectAttempts,
                 timers, probes, startCalls, reopens, clean, exhausted,
                 terminalErrors,
                 strays, openAtStop>>

\* realtimeTranscription.ts:242-245: the EventSource reports an error; the
\* browser either retries by itself (CONNECTING) or gives the object up (CLOSED)
StreamError ==
  /\ StreamOpen
  /\ ReconnectExhausted(reconnectAttempts) \/ timers < MaxTimers
  /\ \E es \in {"connecting", "closed"} : handleReconnect(es)
  /\ UNCHANGED <<isInitialized, isRecording, probes, startCalls, stopCalls,
                 reopens, clean, terminalErrors, openAtStop>>

\* realtimeTranscription.ts:247-250: the connection is established
StreamOpened ==
  /\ eventSource = "connecting"
  /\ eventSource' = "open"
  /\ reconnectAttempts' = 0
  /\ rtEvent' = "opened"
  /\ clean' = FALSE
  /\ exhausted' = FALSE
  /\ UNCHANGED <<isInitialized, isRecording, timers, probes, startCalls,
                 stopCalls, reopens, terminalErrors,
                 strays, openAtStop>>

\* realtimeTranscription.ts:277
TimerReopens == isRecording

\* realtimeTranscription.ts:276-280: a reconnect timer fires
ReconnectTimer ==
  /\ timers > 0
  /\ timers' = timers - 1
  /\ IF TimerReopens
     THEN /\ eventSource' = startEventStream(eventSource)
          /\ strays' = StraysAfter(eventSource)
          /\ openAtStop' = FALSE
          /\ reopens' = Min(reopens + 1, MaxReopens)
          /\ rtEvent' = "reopened"
     ELSE /\ rtEvent' = "timerIgnored"
          /\ UNCHANGED <<eventSource, reopens, strays, openAtStop>>
  /\ UNCHANGED <<isInitialized, isRecording, reconnectAttempts, probes,
                 startCalls, stopCalls, clean, exhausted, terminalErrors>>

\* ------------------------------------------------- RealtimeConsultation

\* the text of the result with sequence number n, one character a, b, c, ...
Letters == <<"a", "b", "c", "d", "e">>
TextOf(n) == <<Letters[n + 1]>>

\* a TranscriptionResult (realtimeTranscription.ts:10-14); its timestamp is
\* the order in which the server captured it
ResultOf(n) == [sequence |-> n, text |-> TextOf(n)]

RECURSIVE JoinTexts(_)
\* Array.prototype.join(' ') over the texts of a list of results
\* (RealtimeConsultation.tsx:154)
JoinTexts(rs) ==
  IF rs = <<>> THEN <<>>
  ELSE IF Len(rs) = 1 THEN rs[1].text
  ELSE rs[1].text \o <<" ">> \o JoinTexts(Tail(rs))

RECURSIVE SortBySequence(_)
\* the results ordered by sequence number (selection sort): the order C6
\* asks the transcript to have
SortBySequence(rs) ==
  IF rs = <<>> THEN <<>>
  ELSE LET m == CHOOSE i \in 1..Len(rs) :
                  \A j \in 1..Len(rs) : rs[i].sequence <= rs[j].sequence
       IN <<rs[m]>> \o
          SortBySequence(SubSeq(rs, 1, m - 1) \o SubSeq(rs, m + 1, Len(rs)))

RECURSIVE Trim(_)
\* String.prototype.trim (RealtimeConsultation.tsx:156)
Trim(t) ==
  IF t = <<>> THEN <<>>
  ELSE IF Head(t) = " " THEN Trim(Tail(t))
  ELSE IF t[Len(t)] = " " THEN Trim(SubSeq(t, 1, Len(t) - 1))
  ELSE t

\* RealtimeConsultation.tsx:152-159: the transcript after getTranscriptions
\* answered with `log`
CombinedTranscript(log, old) ==
  IF Trim(JoinTexts(log)) # <<>> THEN JoinTexts(log) ELSE old

\* RealtimeConsultation.tsx:130-133: what follows `await startTranscription()`
RcAfterStart ==
  /\ rcIsRecording' = TRUE
  /\ realtimeTranscripts' = <<>>
  /\ transcript' = <<>>
  /\ UNCHANGED <<serverLog, gets>>

\* RealtimeConsultation.tsx:114-141: the Start button, up to the await
RcStartRecording ==
  /\ StartTranscription
  /\ IF rtEvent' = "startNoop"
     THEN RcAfterStart /\ rcEvent' = "started"
     ELSE /\ rcEvent' = IF rtEvent' = "startThrew" THEN "alert" ELSE "starting"
          /\ UNCHANGED <<rcIsRecording, realtimeTranscripts, transcript, serverLog, gets>>

\* RealtimeConsultation.tsx:128-135: startTranscription() resolved
RcStartOk ==
  /\ StartOk
  /\ RcAfterStart
  /\ rcEvent' = "started"

\* RealtimeConsultation.tsx:136-140: startTranscription() rejected
RcStartFail ==
  /\ StartFail
  /\ rcEvent' = "alert"
  /\ UNCHANGED <<rcIsRecording, realtimeTranscripts, transcript, serverLog, gets>>

\* RealtimeConsultation.tsx:150-153 with realtimeTranscription.ts:137-147:
\* what follows `await stopTranscription()`, up to the GET
RcAfterStop ==
  /\ rcIsRecording' = FALSE
  /\ IF isInitialized
     THEN gets < MaxCalls /\ gets' = gets + 1 /\ rcEvent' = "fetching"
     ELSE UNCHANGED gets /\ rcEvent' = "alert"
  /\ UNCHANGED <<realtimeTranscripts, transcript, serverLog>>

\* RealtimeConsultation.tsx:143-148: the Stop button, up to the await
RcStopRecording ==
  /\ StopTranscription
  /\ IF rtEvent' = "stopNoop"
     THEN RcAfterStop
     ELSE /\ rcEvent' = "stopping"
          /\ UNCHANGED <<rcIsRecording, realtimeTranscripts, transcript, serverLog, gets>>

\* RealtimeConsultation.tsx:148-153: stopTranscription() resolved
RcStopOk ==
  /\ StopOk
  /\ RcAfterStop

\* RealtimeConsultation.tsx:162-166: stopTranscription() rejected
RcStopFail ==
  /\ StopFail
  /\ rcEvent' = "alert"
  /\ UNCHANGED <<rcIsRecording, realtimeTranscripts, transcript, serverLog, gets>>

\* RealtimeConsultation.tsx:153-161 with realtimeTranscription.ts:152-153:
\* GET /transcriptions answered with the server's log
RcGetOk ==
  /\ gets > 0
  /\ gets' = gets - 1
  /\ transcript' = CombinedTranscript(serverLog, transcript)
  /\ rcEvent' = "combined"
  /\ UNCHANGED <<rcIsRecording, realtimeTranscripts, serverLog>>
  /\ UNCHANGED <<rtVars, rtHist>>

\* RealtimeConsultation.tsx:162-166 with realtimeTranscription.ts:148-150,
\* 155-159: GET /transcriptions failed
RcGetFail ==
  /\ gets > 0
  /\ gets' = gets - 1
  /\ rcEvent' = "alert"
  /\ UNCHANGED <<rcIsRecording, realtimeTranscripts, transcript, serverLog>>
  /\ UNCHANGED <<rtVars, rtHist>>

\* the transcript the callback leaves (RealtimeConsultation.tsx:124)
CallbackTranscript(old, result) == result.text

\* realtimeTranscription.ts:231-236 with RealtimeConsultation.tsx:119-125:
\* the server logs its result number n and pushes it down the open stream
RcMessage(n) ==
  /\ eventSource = "open"
  /\ \A i \in 1..Len(serverLog) : serverLog[i].sequence # n
  /\ serverLog' = Append(serverLog, ResultOf(n))
  /\ realtimeTranscripts' = Append(realtimeTranscripts, ResultOf(n))
  /\ transcript' = CallbackTranscript(transcript, ResultOf(n))
  /\ rcEvent' = IF rcEvent = "malformed" THEN "messageAfterMalformed" ELSE "message"
  /\ UNCHANGED <<rcIsRecording, gets>>
  /\ UNCHANGED <<rtVars, rtHist>>

\* a seeded fault for AfterParseError: the stream is given up
AfterParseErrorCloses(es) == "closed"

\* realtimeTranscription.ts:237-239: the event source as the catch block
\* leaves it
AfterParseError(es) == es

\* realtimeTranscription.ts:231-233, 237-239: an event arrives whose data
\* JSON.parse rejects; the server has logged no result for it
RcMalformedMessage ==
  /\ eventSource = "open"
  /\ eventSource' = AfterParseError(eventSource)
  /\ rcEvent' = "malformed"
  /\ UNCHANGED <<rcIsRecording, realtimeTranscripts, transcript, serverLog, gets>>
  /\ UNCHANGED <<isInitialized, isRecording, reconnectAttempts, timers, probes,
                 startCalls, stopCalls, rtHist>>

\* ---------------------------------------------- LiveTranscriptionService

\* liveTranscription.ts:151: the size addAudioChunk insists on
AddMinSize == 1000
\* liveTranscription.ts:303: the size transcribeAudio insists on
TranscribeMinSize == 100
\* liveTranscription.ts:54: config.minChunkSize as constructed
DefaultMinChunkSize == 1000

\* a null or undefined blob (liveTranscription.ts:140)
NullBlob == -1
\* blobs handed to addAudioChunk: null, or a Blob of that many bytes
Blobs == {NullBlob, 0, 500, 1500}
\* values updateConfig sets config.minChunkSize to
MinChunkSizes == {50, DefaultMinChunkSize, 2000}

\* words of the recognised texts; a text is its sequence of words
\* (liveTranscription.ts:373: the ones of the fixed English list)
EnglishWords == {"the", "is", "you", "how", "are"}
\* texts POST /transcribe answers with: nothing, English, Gujarati
RecognisedTexts == {<<>>, <<"how", "are", "you">>, <<"kem", "cho">>}
\* texts POST /translate answers with: a translation, or an empty field
TranslatedTexts == {<<"how", "are", "you">>, <<>>}

\* A text is the list of the strings that single blanks separate in it: the
\* words, and an empty string wherever a blank is the first or the last
\* character or follows another blank (<<"", "the">> is " the").
NonEmpty(w) == w # ""

\* String.prototype.split(/\s+/) of the text (liveTranscription.ts:375): runs
\* of blanks separate, a text that begins or ends with a blank gives an empty
\* first or last word, the empty text gives one empty word
SplitWords(text) ==
  LET n == Len(text)
      inner == SelectSeq(text, NonEmpty)
  IN IF n = 0 THEN <<"">>
     ELSE IF inner = <<>> THEN (IF n = 1 THEN <<"">> ELSE <<"", "">>)
     ELSE (IF text[1] = "" THEN <<"">> ELSE <<>>) \o inner
            \o (IF text[n] = "" THEN <<"">> ELSE <<>>)

\* String.prototype.toLowerCase of one word (liveTranscription.ts:375)
ToLowerCase(w) == IF w = "The" THEN "the" ELSE IF w = "Is" THEN "is" ELSE w

\* liveTranscription.ts:371-381
isEnglishText(text) ==
  LET words == SplitWords(text)
      englishWordCount ==
        Cardinality({i \in 1..Len(words) : ToLowerCase(words[i]) \in EnglishWords})
      totalWords == Len(words)
  IN totalWords > 0 /\ englishWordCount * 10 > 3 * totalWords

\* chatGPTMedicalPipeline.ts:256: the words of its list among the model's
PipelineEnglishWords == {"the", "is", "are"}

\* chatGPTMedicalPipeline.ts:254-260
isEnglish(text) ==
  LET words == SplitWords(text)
      englishWordCount ==
        Cardinality({i \in 1..Len(words) :
                       ToLowerCase(words[i]) \in PipelineEnglishWords})
  IN englishWordCount * 10 > Len(words)

NoChunk == [size |-> 0, sequence |-> -1]
\* job.min is history: config.minChunkSize when the blob was submitted
Idle == [stage |-> "idle", chunk |-> NoChunk, text |-> <<>>, min |-> 0]

\* addAudioChunk's three checks spelled out (liveTranscription.ts:140, 145, 151)
AcceptsBlobAsWritten(blob) == blob # NullBlob /\ blob # 0 /\ blob >= AddMinSize

\* a seeded fault for AcceptsBlob: the minimum size check dropped
AcceptsBlobOfAnySize(blob) == blob # NullBlob /\ blob # 0

\* liveTranscription.ts:140-154: the blobs addAudioChunk does not skip
AcceptsBlob(blob) == blob # NullBlob /\ blob # 0 /\ ~(blob < AddMinSize)

\* liveTranscription.ts:65-83: both health requests settled, Whisper's with
\* `whisperAvailable`
LiveProbeDone(whisperAvailable) ==
  /\ liveProbes > 0
  /\ liveProbes' = liveProbes - 1
  /\ liveInitialized' = whisperAvailable
  /\ liveEvent' = IF whisperAvailable THEN "probeOk" ELSE "probeFail"
  /\ UNCHANGED <<audioChunks, isProcessing, sequenceCounter, results,
                 minChunkSize, job, callbacks, liveErrors, transcribePosts,
                 cleared>>

\* liveTranscription.ts:65: initialize() called again by a client, no other
\* call of it pending
LiveInitialize ==
  /\ liveProbes = 0
  /\ liveProbes' = liveProbes + 1
  /\ liveEvent' = "other"
  /\ UNCHANGED <<liveInitialized, audioChunks, isProcessing, sequenceCounter,
                 results, minChunkSize, job, callbacks, liveErrors,
                 transcribePosts, cleared>>

\* a seeded fault for LockHeld: the lock is not looked at
LockNeverHeld == FALSE

\* liveTranscription.ts:178: a run of processAudioChunks holds the lock
LockHeld == isProcessing

\* liveTranscription.ts:177-216 with 224-228 and 297-355: processAudioChunks()
\* over the buffer `chunks`, up to its first await on the network; `busy` is
\* the outcome recorded when it returns at once at line 179
processAudioChunks(chunks, busy) ==
  LET latestChunk == chunks[Len(chunks)] IN
  IF LockHeld \/ chunks = <<>>
  THEN /\ audioChunks' = chunks
       /\ liveEvent' = busy
       /\ UNCHANGED <<isProcessing, job, liveErrors, transcribePosts>>
  ELSE IF latestChunk.size < minChunkSize
  THEN /\ audioChunks' = chunks
       /\ liveEvent' = "tooSmall"
       /\ UNCHANGED <<isProcessing, job, liveErrors, transcribePosts>>
  ELSE IF ~liveInitialized
  THEN \* processAudioBlob throws, the catch reports it, finally clears the lock
       /\ audioChunks' = chunks
       /\ liveErrors' = (liveErrors + 1) % 2
       /\ liveEvent' = "errorReported"
       /\ UNCHANGED <<isProcessing, job, transcribePosts>>
  ELSE IF latestChunk.size < TranscribeMinSize
  THEN \* transcribeAudio throws, processAudioBlob returns null
       /\ audioChunks' = <<latestChunk>>
       /\ liveEvent' = "skipped"
       /\ UNCHANGED <<isProcessing, job, liveErrors, transcribePosts>>
  ELSE /\ audioChunks' = chunks
       /\ isProcessing' = TRUE
       /\ job' = [stage |-> "transcribe", chunk |-> latestChunk, text |-> <<>>,
                  min |-> minChunkSize]
       /\ transcribePosts' = transcribePosts + 1
       /\ liveEvent' = "posted"
       /\ UNCHANGED liveErrors

\* liveTranscription.ts:138-172
AddAudioChunk(blob) ==
  /\ sequenceCounter < MaxSequence
  /\ Len(results) < MaxResults
  /\ IF ~AcceptsBlob(blob)
     THEN /\ liveEvent' = "chunkRejected"
          /\ UNCHANGED <<audioChunks, isProcessing, sequenceCounter, job,
                         liveErrors, transcribePosts, cleared>>
     ELSE /\ sequenceCounter' = sequenceCounter + 1
          /\ cleared' = FALSE
          /\ processAudioChunks(
               Append(audioChunks, [size |-> blob, sequence |-> sequenceCounter]),
               "queued")
  /\ UNCHANGED <<liveInitialized, liveProbes, results, minChunkSize, callbacks>>

\* liveTranscription.ts:485-489
FlushPendingChunks ==
  /\ Len(results) < MaxResults
  /\ IF Len(audioChunks) > 0
     THEN processAudioChunks(audioChunks, "flushSkipped")
     ELSE /\ liveEvent' = "nothingToFlush"
          /\ UNCHANGED <<audioChunks, isProcessing, job, liveErrors,
                         transcribePosts>>
  /\ UNCHANGED <<liveInitialized, liveProbes, sequenceCounter, results,
                 minChunkSize, callbacks, cleared>>

\* a seeded fault for LockAfterProcessing: the lock is not released
LockAfterProcessingStuck == TRUE

\* liveTranscription.ts:213-215: isProcessing as the finally block leaves it
LockAfterProcessing == FALSE

\* liveTranscription.ts:197-214 with 290: processAudioBlob returned null
FinishWithoutResult(event) ==
  /\ audioChunks' = <<job.chunk>>
  /\ isProcessing' = LockAfterProcessing
  /\ job' = Idle
  /\ liveEvent' = event
  /\ UNCHANGED <<results, callbacks>>

\* liveTranscription.ts:265-273 with 197-214: processAudioBlob returned a
\* result: it is logged and handed to the callback
FinishWithResult(text, originalText, event) ==
  LET result == [text |-> text, originalText |-> originalText,
                 language |-> IF isEnglishText(originalText) THEN "en" ELSE "gu"]
  IN /\ results' = Append(results, result)
     /\ callbacks' = (callbacks + 1) % 2
     /\ audioChunks' = <<job.chunk>>
     /\ isProcessing' = LockAfterProcessing
     /\ job' = Idle
     /\ liveEvent' = event

\* liveTranscription.ts:357-361, 275-290: POST /transcribe failed
TranscribeFail ==
  /\ job.stage = "transcribe"
  /\ FinishWithoutResult("transcribeFailed")
  /\ transcribePosts' = transcribePosts - 1
  /\ UNCHANGED <<liveInitialized, liveProbes, sequenceCounter, minChunkSize,
                 liveErrors, cleared>>

\* liveTranscription.ts:363-365, 234-263: POST /transcribe answered `text`
TranscribeOk(text) ==
  /\ job.stage = "transcribe"
  /\ IF text = <<>>
     THEN FinishWithoutResult("noSpeech")
     ELSE IF isEnglishText(text)
     THEN FinishWithResult(text, text, "english")
     ELSE /\ job' = [job EXCEPT !.stage = "translate", !.text = text]
          /\ liveEvent' = "translating"
          /\ UNCHANGED <<audioChunks, isProcessing, results, callbacks>>
  /\ transcribePosts' = transcribePosts - 1
  /\ UNCHANGED <<liveInitialized, liveProbes, sequenceCounter, minChunkSize,
                 liveErrors, cleared>>

\* liveTranscription.ts:404-405: POST /translate answered `translated`
TranslateOk(translated) ==
  /\ job.stage = "translate"
  /\ FinishWithResult(IF translated = <<>> THEN job.text ELSE translated,
                      job.text, "translated")
  /\ UNCHANGED <<liveInitialized, liveProbes, sequenceCounter, minChunkSize,
                 liveErrors, transcribePosts, cleared>>

\* a seeded fault for TranslationFallback: the failure leaves no text
TranslationFallbackEmpty(originalText) == <<>>

\* liveTranscription.ts:257-260: the text used when translateText threw
TranslationFallback(originalText) == originalText

\* liveTranscription.ts:400-402, 257-260: POST /translate failed or answered
\* non-OK
TranslateFail ==
  /\ job.stage = "translate"
  /\ FinishWithResult(TranslationFallback(job.text), job.text, "translateFailed")
  /\ UNCHANGED <<liveInitialized, liveProbes, sequenceCounter, minChunkSize,
                 liveErrors, transcribePosts, cleared>>

\* liveTranscription.ts:434-438
ClearResults ==
  /\ results' = <<>>
  /\ audioChunks' = <<>>
  /\ sequenceCounter' = 0
  /\ liveEvent' = "cleared"
  /\ cleared' = TRUE
  /\ UNCHANGED <<liveInitialized, liveProbes, isProcessing, minChunkSize, job,
                 callbacks, liveErrors, transcribePosts>>

\* liveTranscription.ts:412-415
UpdateConfig(min) ==
  /\ min # minChunkSize
  /\ minChunkSize' = min
  /\ liveEvent' = "other"
  /\ UNCHANGED <<liveInitialized, liveProbes, audioChunks, isProcessing,
                 sequenceCounter, results, job, callbacks, liveErrors,
                 transcribePosts, cleared>>

\* ------------------------------------------------------------ batch path

\* the `chunks` array of recorder r once it holds n chunks: chunk k of
\* recorder r, in capture order (Consultation.tsx:116, 126)
ChunksOf(r, n) == [k \in 1..n |-> [recorder |-> r, index |-> k]]

\* Blob.size of new Blob(chunks) (Consultation.tsx:183)
BlobSize(chunks) == Len(chunks) * ChunkBytes

\* texts POST /transcribe answers the batch path with
BatchTexts == {<<>>, <<"a">>}

\* unnamed/part_008:26-36, 38-45: the health probe answers 200
SimpleProbeOk ==
  /\ simpleProbes > 0
  /\ simpleProbes' = simpleProbes - 1
  /\ simpleInitialized' = TRUE
  /\ bEvent' = "probeOk"
  /\ UNCHANGED <<storeIsRecording, mediaRecorder, storeAudioChunks, recorders, supportedTypes,
                 streamRef, orphanStreams, micPending, stopWaits, posts, transcript>>

\* unnamed/part_008:32-35: the probe fails or answers non-OK
SimpleProbeFail ==
  /\ simpleProbes > 0
  /\ simpleProbes' = simpleProbes - 1
  /\ simpleInitialized' = FALSE
  /\ bEvent' = "probeFail"
  /\ UNCHANGED <<storeIsRecording, mediaRecorder, storeAudioChunks, recorders, supportedTypes,
                 streamRef, orphanStreams, micPending, stopWaits, posts, transcript>>

\* unnamed/part_008:105-109, called when the screen mounts
\* (Consultation.tsx:51-71)
SimpleReinitialize ==
  /\ simpleProbes < MaxProbes
  /\ simpleInitialized' = FALSE
  /\ simpleProbes' = simpleProbes + 1
  /\ bEvent' = "other"
  /\ UNCHANGED <<storeIsRecording, mediaRecorder, storeAudioChunks, recorders, supportedTypes,
                 streamRef, orphanStreams, micPending, stopWaits, posts, transcript>>

\* unnamed/part_008:95-100
SimpleGetStatus == [initialized |-> simpleInitialized]

\* a seeded fault for StartRecordingProceeds: the start insists on the service
StartRecordingNeedsService == simpleInitialized

\* Consultation.tsx:91-93: startRecording() asks for the microphone whatever
\* the service's status
StartRecordingProceeds == TRUE

\* Consultation.tsx:91-93: the Start button, up to `await getUserMedia`
StartRecording ==
  IF ~StartRecordingProceeds
  THEN /\ bEvent' = "startRefused"
       /\ UNCHANGED <<batchVars, transcript>>
  ELSE /\ micPending < MaxMic
       /\ micPending' = micPending + 1
       /\ bEvent' = "requestingMic"
       /\ UNCHANGED <<storeIsRecording, mediaRecorder, storeAudioChunks, recorders, supportedTypes,
                      streamRef, orphanStreams, stopWaits, posts, simpleInitialized,
                      simpleProbes, transcript>>

\* the recorder's preference list (Consultation.tsx:97-103)
Opus == "audio/webm;codecs=opus"
Webm == "audio/webm"
Mp4 == "audio/mp4"

\* browsers: one that records webm, one that records mp4 only, one that
\* records none of the three
BrowserProfiles == {{Opus, Webm}, {Mp4}, {}}

\* the browser has not been asked yet
UnknownSupport == {"unknown"}

\* Consultation.tsx:97-103: the mimeType negotiated in a browser supporting
\* `supported`; mp4 is the last resort and is not tested
NegotiatedMimeType(supported) ==
  IF Opus \in supported THEN Opus
  ELSE IF Webm \in supported THEN Webm
  ELSE Mp4

\* Consultation.tsx:93-148: getUserMedia resolved with a stream; the
\* MediaRecorder constructor throws NotSupportedError for a mimeType the
\* browser does not record, and the catch at 149-152 alerts
MicGranted ==
  /\ micPending > 0
  /\ Len(recorders) < MaxRecorders
  /\ micPending' = micPending - 1
  /\ orphanStreams' = IF streamRef = "live"
                      THEN Min(orphanStreams + 1, MaxRecorders)
                      ELSE orphanStreams
  /\ streamRef' = "live"
  /\ \E supported \in BrowserProfiles :
       /\ supportedTypes \in {UnknownSupport, supported}
       /\ supportedTypes' = supported
       /\ LET mimeType == NegotiatedMimeType(supported) IN
          IF mimeType \notin supported
          THEN /\ bEvent' = "recorderFailed"
               /\ UNCHANGED <<recorders, mediaRecorder, storeAudioChunks,
                              storeIsRecording>>
          ELSE /\ recorders' = Append(recorders, [state |-> "recording", count |-> 0,
                                                  mimeType |-> mimeType])
               /\ mediaRecorder' = Len(recorders) + 1
               /\ storeAudioChunks' = <<>>
               /\ storeIsRecording' = TRUE
               /\ bEvent' = "recording"
  /\ UNCHANGED <<stopWaits, posts, simpleInitialized, simpleProbes, transcript>>

\* a seeded fault for AfterMicDenied: the denied start leaves the session
\* marked as recording
AfterMicDeniedStuck(recording) == TRUE

\* Consultation.tsx:149-152: store.isRecording after the catch, which sets
\* nothing
AfterMicDenied(recording) == recording

\* Consultation.tsx:149-152: getUserMedia rejected (permission denied, no
\* device): the catch logs and alerts
MicDenied ==
  /\ micPending > 0
  /\ micPending' = micPending - 1
  /\ storeIsRecording' = AfterMicDenied(storeIsRecording)
  /\ bEvent' = "micDenied"
  /\ UNCHANGED <<mediaRecorder, storeAudioChunks, recorders, supportedTypes,
                 streamRef, orphanStreams, stopWaits, posts, simpleInitialized,
                 simpleProbes, transcript>>

\* Consultation.tsx:124-133, and the last dataavailable a stopped recorder
\* fires: recorder r delivers a chunk (hasData) or an empty blob
DataAvailable(r, hasData) ==
  /\ r \in 1..Len(recorders)
  /\ recorders[r].state \in {"recording", "stopping"}
  /\ recorders[r].state = "recording" => hasData
  /\ hasData => recorders[r].count < MaxChunks
  /\ LET n == recorders[r].count + (IF hasData THEN 1 ELSE 0) IN
     /\ recorders' = [recorders EXCEPT
          ![r] = [@ EXCEPT !.state = IF @ = "stopping" THEN "inactive" ELSE @,
                           !.count = n]]
     /\ storeAudioChunks' = IF hasData THEN ChunksOf(r, n) ELSE storeAudioChunks
  /\ bEvent' = "chunk"
  /\ UNCHANGED <<storeIsRecording, mediaRecorder, supportedTypes, streamRef,
                 orphanStreams, micPending, stopWaits, posts, simpleInitialized,
                 simpleProbes, transcript>>

\* Consultation.tsx:156
StopRecordingGuard == mediaRecorder # 0 /\ storeIsRecording

\* Consultation.tsx:155-173: the Stop button, up to the one second wait
StopRecording ==
  IF ~StopRecordingGuard
  THEN /\ bEvent' = "stopNoop"
       /\ UNCHANGED <<batchVars, transcript>>
  ELSE IF mediaRecorder = 0 \/ recorders[mediaRecorder].state # "recording"
  THEN \* stop() of null or of an inactive recorder throws, outside the try
       /\ bEvent' = "stopThrew"
       /\ UNCHANGED <<batchVars, transcript>>
  ELSE /\ recorders' = [recorders EXCEPT ![mediaRecorder].state = "stopping"]
       /\ streamRef' = IF streamRef = "live" THEN "stopped" ELSE streamRef
       /\ storeIsRecording' = FALSE
       /\ stopWaits' = stopWaits + 1
       /\ bEvent' = "stopping"
       /\ UNCHANGED <<mediaRecorder, storeAudioChunks, supportedTypes,
                      orphanStreams, micPending, posts, simpleInitialized,
                      simpleProbes, transcript>>

\* unnamed/part_008:50-65: transcribeAudio(blob) up to its fetch; the blobs
\* it sends on
SimpleSends(blob) == simpleInitialized

\* Consultation.tsx:183 with unnamed/part_008:56-65: the request POST
\* /transcribe is sent for the store's chunks: the blob's type and the file
\* name of the form field
BatchPost(chunks) == [chunks |-> chunks, type |-> Webm, filename |-> "audio.webm"]

\* Consultation.tsx:173-188 with unnamed/part_008:90-93, 50-65: the wait is
\* over, the store's chunks are combined and handed to transcribeToEnglish
StopTimer ==
  /\ stopWaits > 0
  /\ stopWaits' = stopWaits - 1
  /\ IF storeAudioChunks = <<>>
     THEN bEvent' = "noAudio" /\ UNCHANGED posts
     ELSE IF ~SimpleSends(storeAudioChunks)
     THEN bEvent' = "alert" /\ UNCHANGED posts
     ELSE /\ Len(posts) < MaxPosts
          /\ posts' = Append(posts, BatchPost(storeAudioChunks))
          /\ bEvent' = "posted"
  /\ UNCHANGED <<storeIsRecording, mediaRecorder, storeAudioChunks, recorders, supportedTypes,
                 streamRef, orphanStreams, micPending, simpleInitialized,
                 simpleProbes, transcript>>

\* unnamed/part_008:72-79 with Consultation.tsx:190-199: POST /transcribe
\* answered `text`
BatchTranscribeOk(i, text) ==
  /\ i \in 1..Len(posts)
  /\ posts' = Without(posts, i)
  /\ transcript' = text
  /\ storeAudioChunks' = <<>>
  /\ bEvent' = "transcribed"
  /\ UNCHANGED <<storeIsRecording, mediaRecorder, recorders, supportedTypes, streamRef,
                 orphanStreams, micPending, stopWaits, simpleInitialized,
                 simpleProbes>>

\* unnamed/part_008:67-70, 80-84 with Consultation.tsx:204-209: POST
\* /transcribe failed or answered non-OK
BatchTranscribeFail(i) ==
  /\ i \in 1..Len(posts)
  /\ posts' = Without(posts, i)
  /\ bEvent' = "alert"
  /\ UNCHANGED <<storeIsRecording, mediaRecorder, storeAudioChunks, recorders, supportedTypes,
                 streamRef, orphanStreams, micPending, stopWaits,
                 simpleInitialized, simpleProbes, transcript>>

\* ------------------------------------------- multilingual service

\* texts its POST /transcribe answers with: nothing, or Gujarati
MlRecognisedTexts == {<<>>, <<"kem", "cho">>}

\* multilingualTranscription.ts:204: what processAudioStream returns when the
\* pipeline threw
StreamFailureText == <<"Processing...">>

\* what a call hands its caller: nothing yet, a thrown error, or a text
NoReturn == [kind |-> "none", text |-> <<>>]
Threw == [kind |-> "error", text |-> <<>>]
Returned(text) == [kind |-> "text", text |-> text]

\* multilingualTranscription.ts:55-89: checkServices() settled, both services
\* healthy or not
MlProbeDone(available) ==
  /\ mlProbes > 0
  /\ mlProbes' = mlProbes - 1
  /\ mlInitialized' = available
  /\ mlEvent' = "probed"
  /\ UNCHANGED <<streamingResults, onStreamingResultCallback, mlJobs, mlReturned>>

\* multilingualTranscription.ts:211-217
StartLiveTranscription ==
  /\ onStreamingResultCallback' = TRUE
  /\ streamingResults' = <<>>
  /\ mlEvent' = "liveStarted"
  /\ UNCHANGED <<mlInitialized, mlProbes, mlJobs, mlReturned>>

\* multilingualTranscription.ts:256-259
StopLiveTranscription ==
  /\ onStreamingResultCallback' = FALSE
  /\ mlJobs' = [i \in 1..Len(mlJobs) |-> [mlJobs[i] EXCEPT !.superseded = TRUE]]
  /\ mlEvent' = "liveStopped"
  /\ UNCHANGED <<mlInitialized, mlProbes, streamingResults, mlReturned>>

\* multilingualTranscription.ts:271-273
ClearStreamingResults ==
  /\ streamingResults # <<>>
  /\ streamingResults' = <<>>
  /\ mlEvent' = "cleared"
  /\ UNCHANGED <<mlInitialized, mlProbes, onStreamingResultCallback, mlJobs,
                 mlReturned>>

\* multilingualTranscription.ts:94-101, 119-127: transcribeGujaratiToEnglish
\* up to the fetch of POST /transcribe, for a call of `kind`
\* ("live": processLiveAudioChunk, "stream": processAudioStream)
MlSubmit(kind) ==
  /\ Len(mlJobs) < MaxMlJobs
  /\ mlJobs' = Append(mlJobs, [kind |-> kind, stage |-> "transcribe", text |-> <<>>,
                              superseded |-> FALSE])
  /\ mlEvent' = "submitted"
  /\ UNCHANGED mlReturned

\* multilingualTranscription.ts:199-207: how processAudioStream settles when
\* the pipeline threw
StreamFailure == Returned(StreamFailureText)

\* multilingualTranscription.ts:222-225, 249-252 and 199-207: the pipeline
\* threw inside a call of `kind`
MlFailed(kind) ==
  IF kind = "live"
  THEN mlReturned' = Threw /\ mlEvent' = "liveThrew"
  ELSE mlReturned' = StreamFailure /\ mlEvent' = "streamFailed"

\* multilingualTranscription.ts:222-229: processLiveAudioChunk(blob) called
ProcessLiveAudioChunk ==
  /\ IF ~mlInitialized
     THEN mlReturned' = Threw /\ mlEvent' = "liveThrew" /\ UNCHANGED mlJobs
     ELSE MlSubmit("live")
  /\ UNCHANGED <<mlInitialized, mlProbes, streamingResults,
                 onStreamingResultCallback>>

\* multilingualTranscription.ts:199-201 with 94-97: processAudioStream(blob)
\* called
ProcessAudioStream ==
  /\ IF ~mlInitialized
     THEN MlFailed("stream") /\ UNCHANGED mlJobs
     ELSE MlSubmit("stream")
  /\ UNCHANGED <<mlInitialized, mlProbes, streamingResults,
                 onStreamingResultCallback>>

\* multilingualTranscription.ts:129-135, 100-104: POST /transcribe answered
\* `text` for call i, which goes on to POST /translate
MlTranscribeOk(i, text) ==
  /\ i \in 1..Len(mlJobs)
  /\ mlJobs[i].stage = "transcribe"
  /\ mlJobs' = [mlJobs EXCEPT ![i] = [@ EXCEPT !.stage = "translate", !.text = text]]
  /\ mlEvent' = "translating"
  /\ UNCHANGED <<mlInitialized, mlProbes, streamingResults,
                 onStreamingResultCallback, mlReturned>>

\* multilingualTranscription.ts:129-132, 154-156, 113-116: POST /transcribe
\* or POST /translate failed or answered non-OK for call i
MlRequestFail(i) ==
  /\ i \in 1..Len(mlJobs)
  /\ mlJobs' = Without(mlJobs, i)
  /\ MlFailed(mlJobs[i].kind)
  /\ UNCHANGED <<mlInitialized, mlProbes, streamingResults,
                 onStreamingResultCallback>>

\* multilingualTranscription.ts:158-159: data.translated_text || text
MlTranslated(translated, text) == IF translated = <<>> THEN text ELSE translated

\* multilingualTranscription.ts:229-248 and 201-202: POST /translate answered
\* `translated` for call i: a live call logs the result and hands it to the
\* callback if one is set, a stream call returns the text
MlTranslateOk(i, translated) ==
  /\ i \in 1..Len(mlJobs)
  /\ mlJobs[i].stage = "translate"
  /\ mlJobs' = Without(mlJobs, i)
  /\ LET text == MlTranslated(translated, mlJobs[i].text) IN
     IF mlJobs[i].kind = "live"
     THEN /\ Len(streamingResults) < MaxResults
          /\ streamingResults' =
               Append(streamingResults, [text |-> text, originalText |-> mlJobs[i].text])
          /\ mlEvent' = IF onStreamingResultCallback THEN "liveDelivered"
                                                     ELSE "liveLogged"
          /\ UNCHANGED mlReturned
     ELSE /\ mlReturned' = Returned(text)
          /\ mlEvent' = "streamReturned"
          /\ UNCHANGED streamingResults
  /\ UNCHANGED <<mlInitialized, mlProbes, onStreamingResultCallback>>

\* ------------------------------------------- WhisperTranscriptionService

\* the probe that completes is the most recently started one (isNewest) or
\* one started before it
WhisperProbeCompletes(isNewest) ==
  /\ whisperProbes > 0
  /\ IF isNewest
     THEN whisperNewest = "pending"
     ELSE whisperProbes > (IF whisperNewest = "pending" THEN 1 ELSE 0)
  /\ whisperProbes' = whisperProbes - 1

\* whisperTranscription.ts:32-37, 44-51: a health probe answers 200
WhisperProbeOk(isNewest) ==
  /\ WhisperProbeCompletes(isNewest)
  /\ whisperInitialized' = TRUE
  /\ wEvent' = "probeOk"
  /\ whisperNewest' = IF isNewest THEN "ok" ELSE whisperNewest
  /\ whisperLast' = "ok"
  /\ UNCHANGED <<whisperPosts, whisperChecks>>

\* a seeded fault for WhisperFlagAfterFailedProbe: the catch keeps the flag
WhisperFlagKeptAfterFailedProbe == whisperInitialized

\* whisperTranscription.ts:40: the flag as the catch block leaves it
WhisperFlagAfterFailedProbe == FALSE

\* whisperTranscription.ts:38-41, 47-54: a health probe fails or answers
\* non-OK
WhisperProbeFail(isNewest) ==
  /\ WhisperProbeCompletes(isNewest)
  /\ whisperInitialized' = WhisperFlagAfterFailedProbe
  /\ wEvent' = "probeFail"
  /\ whisperNewest' = IF isNewest THEN "fail" ELSE whisperNewest
  /\ whisperLast' = "fail"
  /\ UNCHANGED <<whisperPosts, whisperChecks>>

\* whisperTranscription.ts:143-147: reinitialize() up to its await
WhisperReinitialize ==
  /\ whisperProbes < MaxOverlap
  /\ whisperInitialized' = FALSE
  /\ whisperProbes' = whisperProbes + 1
  /\ wEvent' = "reinitialize"
  /\ whisperNewest' = "pending"
  /\ UNCHANGED <<whisperPosts, whisperChecks, whisperLast>>

\* whisperTranscription.ts:81-104: transcribeAudio() up to its await
WhisperTranscribeAudio ==
  /\ IF ~whisperInitialized
     THEN wEvent' = "transcribeThrew" /\ UNCHANGED whisperPosts
     ELSE /\ whisperPosts < MaxWhisperPosts
          /\ whisperPosts' = whisperPosts + 1
          /\ wEvent' = "posted"
  /\ UNCHANGED <<whisperInitialized, whisperProbes, whisperChecks, whisperNewest,
                 whisperLast>>

\* whisperTranscription.ts:111-120: POST /transcribe answered OK
WhisperTranscribeOk ==
  /\ whisperPosts > 0
  /\ whisperPosts' = whisperPosts - 1
  /\ wEvent' = "transcribed"
  /\ UNCHANGED <<whisperInitialized, whisperProbes, whisperChecks, whisperNewest,
                 whisperLast>>

\* whisperTranscription.ts:106-109, 121-125: POST /transcribe failed or
\* answered non-OK
WhisperTranscribeFail ==
  /\ whisperPosts > 0
  /\ whisperPosts' = whisperPosts - 1
  /\ wEvent' = "transcribeFailed"
  /\ UNCHANGED <<whisperInitialized, whisperProbes, whisperChecks, whisperNewest,
                 whisperLast>>

\* whisperTranscription.ts:152-154: isServiceAvailable() up to its await
WhisperIsServiceAvailable ==
  /\ whisperChecks < MaxProbes
  /\ whisperChecks' = whisperChecks + 1
  /\ wEvent' = "checking"
  /\ UNCHANGED <<whisperInitialized, whisperProbes, whisperPosts, whisperNewest,
                 whisperLast>>

\* whisperTranscription.ts:154-158: its probe settled; the call returns
\* `available` and leaves the flag alone
WhisperCheckDone(available) ==
  /\ whisperChecks > 0
  /\ whisperChecks' = whisperChecks - 1
  /\ wEvent' = IF available THEN "checkTrue" ELSE "checkFalse"
  /\ UNCHANGED <<whisperInitialized, whisperProbes, whisperPosts, whisperNewest,
                 whisperLast>>

\* ------------------------------------------------- the language heuristic

\* n copies of the string w
Repeat(w, n) == [k \in 1..n |-> w]

\* the English words of a text handed to the heuristic, some capitalised
HeuristicEnglish == <<"The", "is", "are", "the", "Is">>

\* texts handed to the heuristic: `lead` blanks, `english` English words,
\* `other` Gujarati words, `trail` blanks, consecutive words one blank apart
HeuristicText(lead, english, other, trail) ==
  Repeat("", lead)
    \o [k \in 1..english |-> HeuristicEnglish[((k - 1) % Len(HeuristicEnglish)) + 1]]
    \o Repeat("kem", other) \o Repeat("", trail)

HeuristicTexts ==
  {HeuristicText(lead, english, other, trail) :
     lead \in 0..MaxPad, english \in 0..MaxEnglish, other \in 0..MaxOther,
     trail \in 0..MaxPad}

\* a boolean result as the string the model records
Verdict(b) == IF b THEN "true" ELSE "false"

\* liveTranscription.ts:245: isEnglishText called on the text
LiveHeuristic ==
  /\ hLive = "pending"
  /\ hLive' = Verdict(isEnglishText(hText))
  /\ UNCHANGED <<hText, hPipeline>>

\* chatGPTMedicalPipeline.ts:230: isEnglish called on the text
PipelineHeuristic ==
  /\ hPipeline = "pending"
  /\ hPipeline' = Verdict(isEnglish(hText))
  /\ UNCHANGED <<hText, hLive>>

\* ------------------------------------------------------------ initial state

\* realtimeTranscription.ts:18-31 and 305: the singleton after construction,
\* its constructor's health probe in flight
InitRT ==
  /\ isInitialized = FALSE
  /\ isRecording = FALSE
  /\ eventSource = "null"
  /\ reconnectAttempts = 0
  /\ timers = 0
  /\ probes = 1
  /\ startCalls = 0
  /\ stopCalls = 0
  /\ rtEvent = "constructed"
  /\ reopens = 0
  /\ clean = FALSE
  /\ exhausted = FALSE
  /\ terminalErrors = 0
  /\ strays = 0
  /\ openAtStop = FALSE

\* RealtimeConsultation.tsx:29-32, useStore.ts:423: the component as mounted
InitRC ==
  /\ rcIsRecording = FALSE
  /\ realtimeTranscripts = <<>>
  /\ transcript = <<>>
  /\ serverLog = <<>>
  /\ gets = 0
  /\ rcEvent = "mounted"

\* liveTranscription.ts:35-60 and 562: the singleton after construction, its
\* constructor's checkServices() in flight
InitLive ==
  /\ liveInitialized = FALSE
  /\ liveProbes = 1
  /\ audioChunks = <<>>
  /\ isProcessing = FALSE
  /\ sequenceCounter = 0
  /\ results = <<>>
  /\ minChunkSize = DefaultMinChunkSize
  /\ job = Idle
  /\ liveEvent = "constructed"
  /\ callbacks = 0
  /\ liveErrors = 0
  /\ transcribePosts = 0
  /\ cleared = FALSE

\* useStore.ts:422-426, Consultation.tsx:43, unnamed/part_008:16-24 and 113:
\* the store and the simple service as constructed, its probe in flight
InitBatch ==
  /\ storeIsRecording = FALSE
  /\ mediaRecorder = 0
  /\ storeAudioChunks = <<>>
  /\ recorders = <<>>
  /\ supportedTypes = UnknownSupport
  /\ streamRef = "null"
  /\ orphanStreams = 0
  /\ micPending = 0
  /\ stopWaits = 0
  /\ posts = <<>>
  /\ simpleInitialized = FALSE
  /\ simpleProbes = 1
  /\ bEvent = "mounted"

\* multilingualTranscription.ts:34-36, 38-51 and 321: the singleton after
\* construction, checkServices() in flight
InitMl ==
  /\ mlInitialized = FALSE
  /\ mlProbes = 1
  /\ streamingResults = <<>>
  /\ onStreamingResultCallback = FALSE
  /\ mlJobs = <<>>
  /\ mlEvent = "constructed"
  /\ mlReturned = NoReturn

\* whisperTranscription.ts:20-30: the service after construction, its
\* constructor's initialize() in flight
InitWhisper ==
  /\ whisperInitialized = FALSE
  /\ whisperProbes = 1
  /\ whisperPosts = 0
  /\ whisperChecks = 0
  /\ wEvent = "constructed"
  /\ whisperNewest = "pending"
  /\ whisperLast = "none"

\* the text a caller is about to hand to the heuristic
InitHeuristic ==
  /\ hText = <<>>
  /\ hLive = "pending"
  /\ hPipeline = "pending"

Init ==
  InitRT /\ InitRC /\ InitLive /\ InitBatch /\ InitMl /\ InitWhisper /\ InitHeuristic

\* the same with any of the texts of the model in the caller's hand
InitTexts ==
  /\ InitRT /\ InitRC /\ InitLive /\ InitBatch /\ InitMl /\ InitWhisper
  /\ hText \in HeuristicTexts
  /\ hLive = "pending"
  /\ hPipeline = "pending"

\* ---------------------------------------------------------- specifications

\* the Whisper service driven through its own interface
NextWhisper ==
  \/ \E isNewest \in BOOLEAN : WhisperProbeOk(isNewest) /\ UNCHANGED nonWhisper
  \/ \E isNewest \in BOOLEAN : WhisperProbeFail(isNewest) /\ UNCHANGED nonWhisper
  \/ WhisperReinitialize /\ UNCHANGED nonWhisper
  \/ WhisperTranscribeAudio /\ UNCHANGED nonWhisper
  \/ WhisperTranscribeOk /\ UNCHANGED nonWhisper
  \/ WhisperTranscribeFail /\ UNCHANGED nonWhisper
  \/ WhisperIsServiceAvailable /\ UNCHANGED nonWhisper
  \/ \E available \in BOOLEAN : WhisperCheckDone(available) /\ UNCHANGED nonWhisper

SpecWhisper == Init /\ [][NextWhisper]_vars

\* the realtime service driven through its own interface
Next ==
  \/ ProbeOk /\ UNCHANGED nonRT
  \/ ProbeFail /\ UNCHANGED nonRT
  \/ Reinitialize /\ UNCHANGED nonRT
  \/ StartTranscription /\ UNCHANGED nonRT
  \/ StartOk /\ UNCHANGED nonRT
  \/ StartFail /\ UNCHANGED nonRT
  \/ StopTranscription /\ UNCHANGED nonRT
  \/ StopOk /\ UNCHANGED nonRT
  \/ StopFail /\ UNCHANGED nonRT
  \/ StreamError /\ UNCHANGED nonRT
  \/ StreamOpened /\ UNCHANGED nonRT
  \/ ReconnectTimer /\ UNCHANGED nonRT

Spec == Init /\ [][Next]_vars

\* the RealtimeConsultation screen over a stream that connects
NextRC ==
  \/ ProbeOk /\ UNCHANGED <<rcVars, nonRC>>
  \/ ProbeFail /\ UNCHANGED <<rcVars, nonRC>>
  \/ StreamOpened /\ UNCHANGED <<rcVars, nonRC>>
  \/ RcStartRecording /\ UNCHANGED nonRC
  \/ RcStartOk /\ UNCHANGED nonRC
  \/ RcStartFail /\ UNCHANGED nonRC
  \/ RcStopRecording /\ UNCHANGED nonRC
  \/ RcStopOk /\ UNCHANGED nonRC
  \/ RcStopFail /\ UNCHANGED nonRC
  \/ RcGetOk /\ UNCHANGED nonRC
  \/ RcGetFail /\ UNCHANGED nonRC
  \/ \E n \in 0..(MaxSeg - 1) : RcMessage(n) /\ UNCHANGED nonRC
  \/ RcMalformedMessage /\ UNCHANGED nonRC

SpecRC == Init /\ [][NextRC]_vars

\* the live service driven through its own interface
NextLive ==
  \/ \E ok \in BOOLEAN : LiveProbeDone(ok) /\ UNCHANGED nonLive
  \/ LiveInitialize /\ UNCHANGED nonLive
  \/ \E blob \in Blobs : AddAudioChunk(blob) /\ UNCHANGED nonLive
  \/ FlushPendingChunks /\ UNCHANGED nonLive
  \/ TranscribeFail /\ UNCHANGED nonLive
  \/ \E text \in RecognisedTexts : TranscribeOk(text) /\ UNCHANGED nonLive
  \/ \E text \in TranslatedTexts : TranslateOk(text) /\ UNCHANGED nonLive
  \/ TranslateFail /\ UNCHANGED nonLive
  \/ ClearResults /\ UNCHANGED nonLive
  \/ \E min \in MinChunkSizes : UpdateConfig(min) /\ UNCHANGED nonLive

SpecLive == Init /\ [][NextLive]_vars

\* the batch screen
NextBatch ==
  \/ SimpleProbeOk /\ UNCHANGED nonBatch
  \/ SimpleProbeFail /\ UNCHANGED nonBatch
  \/ SimpleReinitialize /\ UNCHANGED nonBatch
  \/ StartRecording /\ UNCHANGED nonBatch
  \/ MicGranted /\ UNCHANGED nonBatch
  \/ MicDenied /\ UNCHANGED nonBatch
  \/ \E r \in 1..MaxRecorders, hasData \in BOOLEAN :
       DataAvailable(r, hasData) /\ UNCHANGED nonBatch
  \/ StopRecording /\ UNCHANGED nonBatch
  \/ StopTimer /\ UNCHANGED nonBatch
  \/ \E i \in 1..MaxPosts, text \in BatchTexts :
       BatchTranscribeOk(i, text) /\ UNCHANGED nonBatch
  \/ \E i \in 1..MaxPosts : BatchTranscribeFail(i) /\ UNCHANGED nonBatch

SpecBatch == Init /\ [][NextBatch]_vars

\* the multilingual service driven through its own interface
NextMl ==
  \/ \E ok \in BOOLEAN : MlProbeDone(ok) /\ UNCHANGED nonMl
  \/ StartLiveTranscription /\ UNCHANGED nonMl
  \/ StopLiveTranscription /\ UNCHANGED nonMl
  \/ ClearStreamingResults /\ UNCHANGED nonMl
  \/ ProcessLiveAudioChunk /\ UNCHANGED nonMl
  \/ ProcessAudioStream /\ UNCHANGED nonMl
  \/ \E i \in 1..MaxMlJobs, text \in MlRecognisedTexts :
       MlTranscribeOk(i, text) /\ UNCHANGED nonMl
  \/ \E i \in 1..MaxMlJobs : MlRequestFail(i) /\ UNCHANGED nonMl
  \/ \E i \in 1..MaxMlJobs, text \in TranslatedTexts :
       MlTranslateOk(i, text) /\ UNCHANGED nonMl

SpecMl == Init /\ [][NextMl]_vars

\* one screen is used at a time: the streaming service is driven while the
\* batch screen is as mounted, the batch screen while the service is as
\* constructed
NextScreens ==
  \/ bEvent = "mounted" /\ Next
  \/ rtEvent = "constructed" /\ NextBatch

SpecScreens == Init /\ [][NextScreens]_vars

\* the four services with an availability flag, one driven at a time while
\* the others are as constructed
NextServices ==
  \/ liveEvent = "constructed" /\ bEvent = "mounted" /\ wEvent = "constructed" /\ Next
  \/ rtEvent = "constructed" /\ bEvent = "mounted" /\ wEvent = "constructed" /\ NextLive
  \/ rtEvent = "constructed" /\ liveEvent = "constructed" /\ wEvent = "constructed"
       /\ NextBatch
  \/ rtEvent = "constructed" /\ liveEvent = "constructed" /\ bEvent = "mounted"
       /\ NextWhisper

SpecServices == Init /\ [][NextServices]_vars

\* the language heuristic applied at its two call sites
NextHeuristic ==
  \/ LiveHeuristic /\ UNCHANGED nonHeuristic
  \/ PipelineHeuristic /\ UNCHANGED nonHeuristic

SpecHeuristic == InitTexts /\ [][NextHeuristic]_vars

\* ------------------------------------------------------------------ claims

\* C1 (as claimed): in every reachable state an open event stream implies
\* isRecording, and right after stopTranscription() resolved the event stream
\* is closed.
C1_StreamOnlyWhileCapturing ==
  /\ StreamOpen => isRecording
  /\ rtEvent = "stopResolved" => ~StreamOpen

C3_TerminalErrorOnExhaustion == exhausted => terminalErrors = 1

\* C4: stop is idempotent. A stopTranscription() call (streaming) or a
\* stopRecording() call (batch) made when the session is not capturing changes
\* nothing: no POST /stop, no wait and no further POST /transcribe, no change
\* of the transcript, and no error.
C4_StopIsIdempotent ==
  [][/\ (rtEvent' \in {"stopNoop", "stopSent"} /\ ~isRecording) =>
          UNCHANGED rtVars
     /\ (bEvent' \in {"stopNoop", "stopping", "stopThrew"} /\ ~storeIsRecording) =>
          (bEvent' # "stopThrew" /\ UNCHANGED <<batchVars, transcript>>)]_vars

\* a second stopRecording() after the first stopped the recorder, ignored
C4_SecondStopIgnored ==
  /\ bEvent = "stopNoop"
  /\ ~storeIsRecording
  /\ mediaRecorder # 0
  /\ recorders[mediaRecorder].state # "recording"

FinishEvents ==
  {"transcribeFailed", "noSpeech", "english", "translated", "translateFailed"}

\* the chunk added last
LastChunk(chunks) == chunks[Len(chunks)]

\* C12 (as claimed): a chunk queued while a submission was in flight is not
\* dropped: when the submission completes, the chunk added last is submitted
\* or at least still buffered, so that it can be submitted.
C12_QueuedChunkNotDropped ==
  [][(/\ isProcessing
      /\ liveEvent' \in FinishEvents
      /\ audioChunks # <<>>
      /\ LastChunk(audioChunks) # job.chunk) =>
        \/ job'.stage = "transcribe" /\ job'.chunk = LastChunk(audioChunks)
        \/ \E i \in 1..Len(audioChunks') : audioChunks'[i] = LastChunk(audioChunks)
    ]_vars

\* C13 (as claimed): a transcription response that arrives after
\* stopLiveTranscription() is neither appended to the results log nor
\* delivered to the callback.
C13_LateResponseIgnored ==
  [][(/\ mlJobs # <<>>
      /\ \A i \in 1..Len(mlJobs) : mlJobs[i].superseded
      /\ Len(mlJobs') < Len(mlJobs)
      /\ mlEvent' \in {"liveDelivered", "liveLogged"}) =>
        /\ streamingResults' = streamingResults
        /\ mlEvent' # "liveDelivered"]_vars

\* C14 (as claimed): flushPendingChunks() returns only after the submission
\* that was in flight when it was called has completed: right after a flush
\* that returned at once nothing is in flight.
C14_FlushDrains == liveEvent = "flushSkipped" => ~isProcessing

\* C15 (as claimed): the blob stopRecording() submits holds every chunk the
\* session's recorder delivered, the one flushed by stop included, in capture
\* order.
C15_BlobHoldsWholeSession ==
  \A i \in 1..Len(posts) :
    LET r == posts[i].chunks[1].recorder
    IN posts[i].chunks = ChunksOf(r, recorders[r].count)

\* C16: when getUserMedia rejects, startRecording() reports it (the alert of
\* its catch) and the denied attempt changes nothing: a session that was not
\* recording stays so, no recorder is installed or created, the store's
\* chunks and the stream reference are as before.
C16_DeniedStartStaysIdle ==
  [][(bEvent' = "micDenied" /\ micPending' < micPending) =>
        /\ ~storeIsRecording => ~storeIsRecording'
        /\ UNCHANGED <<mediaRecorder, recorders, storeAudioChunks, streamRef,
                       orphanStreams>>]_vars

\* C16 witness: a first start was denied and the session is idle, with no
\* recorder
C16_DeniedAndIdle ==
  /\ bEvent = "micDenied"
  /\ ~storeIsRecording
  /\ mediaRecorder = 0
  /\ recorders = <<>>
  /\ streamRef = "null"

\* C17 (as claimed): whenever the session is not recording, no live
\* microphone stream is held, referenced by streamRef or not.
C17_MicOnlyWhileRecording ==
  ~storeIsRecording => (streamRef # "live" /\ orphanStreams = 0)

\* the container of a mimeType of the preference list
Container(mimeType) == IF mimeType = Mp4 THEN "mp4" ELSE "webm"

\* the file name whose extension names that container
FileNameOf(container) == IF container = "mp4" THEN "audio.mp4" ELSE "audio.webm"

\* C18 (as claimed): the content type and the file name of every blob sent to
\* POST /transcribe name the container its recorder negotiated.
C18_LabelMatchesContainer ==
  \A i \in 1..Len(posts) :
    LET negotiated == recorders[posts[i].chunks[1].recorder].mimeType IN
      /\ Container(posts[i].type) = Container(negotiated)
      /\ posts[i].filename = FileNameOf(Container(negotiated))

\* C19 (as claimed): when the pipeline fails inside processAudioStream() the
\* caller sees an error, not a text handed back as if it were a
\* transcription.
C19_FailureIsAnError == mlEvent = "streamFailed" => mlReturned = Threw

\* the outcomes of a submission that failed or heard no speech (liveEvent)
FailureEvents == {"transcribeFailed", "noSpeech"}

\* C20: a failed chunk does not stop the live session. The step in which a
\* submission fails (POST /transcribe failed, or no speech) releases
\* isProcessing; the lock is held only while a request is outstanding; and the
\* next chunk addAudioChunk accepts after the failure, the service being
\* available and the chunk of at least config.minChunkSize bytes, is submitted.
C20_FailureIsNotFatal ==
  [][/\ (isProcessing /\ liveEvent' \in FailureEvents /\ job' # job) => ~isProcessing'
     /\ isProcessing' <=> job'.stage # "idle"
     /\ (/\ liveEvent \in FailureEvents
         /\ sequenceCounter' = sequenceCounter + 1
         /\ liveInitialized
         /\ LastChunk(audioChunks').size >= minChunkSize) =>
           /\ liveEvent' = "posted"
           /\ isProcessing'
           /\ job'.chunk = LastChunk(audioChunks')]_vars

\* C20 witness: POST /transcribe failed for a submitted chunk and the lock
\* is free again, the chunk still buffered
C20_LockReleasedAfterFailure ==
  /\ liveEvent = "transcribeFailed"
  /\ ~isProcessing
  /\ liveInitialized
  /\ audioChunks # <<>>
  /\ results = <<>>

\* C5 (as claimed): a start issued while an earlier start is still awaiting
\* its request sends no second POST /start, so no two are ever in flight.
C5_SingleStartInFlight == startCalls <= 1

\* C6 (as claimed): the transcript assembled at stop is the results' texts
\* joined in sequence order, whatever order they arrived in.
C6_TranscriptInSequenceOrder ==
  (rcEvent = "combined" /\ serverLog # <<>>) =>
    transcript = JoinTexts(SortBySequence(serverLog))

\* C7 (as claimed): after each result delivered during capture the transcript
\* is the trimmed, space-joined text of all results received so far in the
\* session.
C7_TranscriptIsConcatenation ==
  rcEvent = "message" => transcript = Trim(JoinTexts(realtimeTranscripts))

\* C8: every blob the live service holds or has sent to POST /transcribe
\* passed addAudioChunk's checks (not null, not empty, at least AddMinSize
\* bytes), and a blob in a request was at least config.minChunkSize bytes
\* when it was submitted.
C8_SmallBlobNeverPosted ==
  /\ \A i \in 1..Len(audioChunks) : AcceptsBlobAsWritten(audioChunks[i].size)
  /\ job.stage # "idle" =>
       /\ AcceptsBlobAsWritten(job.chunk.size)
       /\ job.chunk.size >= job.min

\* C8 witness: a blob was refused while the service was ready and idle with
\* chunks buffered, and nothing was submitted.
C8_BlobRefused ==
  /\ liveEvent = "chunkRejected"
  /\ liveInitialized /\ ~isProcessing /\ audioChunks # <<>>
  /\ job = Idle

\* C9: in the batch path an empty or below-minimum-size blob is never sent to
\* POST /transcribe: every blob in flight has at least the minimum size.
C9_BatchBlobValidated ==
  \A i \in 1..Len(posts) : BlobSize(posts[i].chunks) >= TranscribeMinSize

\* C10: when POST /translate fails for a non-empty text classified as
\* non-English, the chunk's result carries the untranslated text, is appended
\* to the log and handed to the result callback, and the error callback is
\* not invoked.
C10_TranslationFailureDegrades ==
  [][(job.stage = "translate" /\ liveEvent' = "translateFailed") =>
       /\ job.text # <<>> /\ ~isEnglishText(job.text)
       /\ results' = Append(results, [text |-> job.text,
                                      originalText |-> job.text,
                                      language |-> "gu"])
       /\ callbacks' # callbacks
       /\ liveErrors' = liveErrors]_vars

\* C10 witness: a translation failed and the log ends with the untranslated
\* text.
C10_UntranslatedLogged ==
  /\ liveEvent = "translateFailed"
  /\ results # <<>>
  /\ results[Len(results)].text = <<"kem", "cho">>
  /\ results[Len(results)].originalText = <<"kem", "cho">>

\* C21: the availability flag of each of the four services starts false,
\* becomes true only in the step in which one of its health probes completes
\* successfully, and is false right after one of its probes failed.
C21_FlagNeedsSuccessfulProbe ==
  /\ ~isInitialized /\ ~liveInitialized /\ ~whisperInitialized /\ ~simpleInitialized
  /\ [][/\ (isInitialized' /\ ~isInitialized) => rtEvent' = "probeOk"
        /\ (liveInitialized' /\ ~liveInitialized) => liveEvent' = "probeOk"
        /\ (whisperInitialized' /\ ~whisperInitialized) => wEvent' = "probeOk"
        /\ (simpleInitialized' /\ ~simpleInitialized) => bEvent' = "probeOk"
        /\ rtEvent' = "probeFail" => ~isInitialized'
        /\ liveEvent' = "probeFail" => ~liveInitialized'
        /\ wEvent' = "probeFail" => ~whisperInitialized'
        /\ bEvent' = "probeFail" => ~simpleInitialized']_vars

\* C21 witness: the Whisper service's flag is up right after a probe of it
\* answered 200, while an older probe is still in flight.
C21_FlagRaisedByProbe ==
  whisperInitialized /\ wEvent = "probeOk" /\ whisperProbes > 0

\* C22: an event whose data does not parse is dropped without effect: the
\* callback is not invoked, the stream stays open, no reconnect is scheduled
\* and isRecording and reconnectAttempts keep their values; every well-formed
\* event, also after a malformed one, is handed to the callback once, in
\* arrival order.
C22_MalformedEventDropped ==
  [][/\ rcEvent' = "malformed" =>
          UNCHANGED <<realtimeTranscripts, transcript, eventSource, timers,
                      isRecording, reconnectAttempts>>
     /\ (rcEvent' \in {"message", "messageAfterMalformed"}
           /\ serverLog' # serverLog) =>
          /\ Len(serverLog') = Len(serverLog) + 1
          /\ realtimeTranscripts' =
               Append(realtimeTranscripts, serverLog'[Len(serverLog')])]_vars

\* C22 witness: a well-formed event was forwarded after a malformed one had
\* been dropped on the same open stream.
C22_ForwardedAfterMalformed ==
  /\ rcEvent = "messageAfterMalformed"
  /\ eventSource = "open"
  /\ realtimeTranscripts # <<>>

\* C23 (as claimed): no two chunks in the pending buffer carry the same
\* sequence number, in any reachable state, clearResults() calls that
\* interleave with a submission in flight included.
C23_SequencesDistinct ==
  \A i, j \in 1..Len(audioChunks) :
    i # j => audioChunks[i].sequence # audioChunks[j].sequence

\* the whitespace-separated tokens of a text: its words
Tokens(text) == SelectSeq(text, NonEmpty)

\* more than num/den of the tokens of the text, lower-cased, are in `set`
TokenFractionExceeds(text, set, num, den) ==
  LET tokens == Tokens(text)
      matching == Cardinality({i \in 1..Len(tokens) : ToLowerCase(tokens[i]) \in set})
  IN Len(tokens) > 0 /\ matching * den > num * Len(tokens)

\* C24 (as claimed): the heuristic returns true exactly when the English
\* tokens are more than 30% (isEnglishText) or more than 10% (isEnglish) of
\* the whitespace-separated tokens of the text; a fraction equal to the
\* threshold and the empty text give false.
C24_HeuristicIsTokenFraction ==
  /\ hLive # "pending" =>
       (hLive = "true" <=> TokenFractionExceeds(hText, EnglishWords, 3, 10))
  /\ hPipeline # "pending" =>
       (hPipeline = "true" <=> TokenFractionExceeds(hText, PipelineEnglishWords, 1, 10))

\* C25 (as claimed): a transcribeAudio() call made while a health probe of
\* the service is in flight, the probe that completed last having succeeded,
\* is submitted to POST /transcribe.
C25_ProbeDoesNotBlockSubmission ==
  [][(/\ wEvent' \in {"posted", "transcribeThrew"}
      /\ whisperProbes > 0
      /\ whisperLast = "ok"
      /\ whisperPosts < MaxWhisperPosts) => wEvent' = "posted"]_vars

\* C26: the live service has at most one POST /transcribe in flight, whatever
\* the interleaving of addAudioChunk, flushPendingChunks and the pending
\* transcription and translation responses.
C26_OneTranscribeInFlight == transcribePosts <= 1

\* C26 witness: a chunk was accepted and flushPendingChunks() called while
\* a POST /transcribe was in flight, and neither posted a second one.
C26_SecondSubmissionHeldBack ==
  /\ transcribePosts = 1
  /\ liveEvent = "flushSkipped"
  /\ Len(audioChunks) > 1

\* C27 (as claimed): from clearResults() until the next chunk is accepted the
\* results log and the pending-chunk buffer are empty, also when a
\* transcription that was in flight at the clear completes.
C27_ClearedStaysEmpty == cleared => (results = <<>> /\ audioChunks = <<>>)

\* C28 (as claimed): once no health probe is in flight, isInitialized is the
\* outcome of the probe that was started last, in whatever order the
\* responses of overlapping probes arrived.
C28_NewestProbeWins ==
  whisperProbes = 0 => (whisperInitialized <=> whisperNewest = "ok")

\* C29: the service has at most one open EventSource: every EventSource it
\* opened and no longer refers to has been closed, for any interleaving of
\* start, stream errors, reconnect timers and stop.
C29_AtMostOneOpenStream == strays = 0

\* C29 witness: a reconnect timer has replaced the EventSource for the second
\* time in one session, and no object was left open.
C29_StreamReplacedTwice ==
  /\ rtEvent = "reopened"
  /\ clean
  /\ reopens = 2
  /\ stopCalls = 0
  /\ strays = 0

\* C30 (as claimed): a stopTranscription() call whose POST /stop fails leaves
\* the session as it found it: isRecording still set and, no other handler
\* having replaced the stream meanwhile, the event stream still open.
C30_FailedStopLeavesSession ==
  (rtEvent = "stopRejected" /\ openAtStop) => (isRecording /\ StreamOpen)

====
